---- MODULE Spec2Model ----
(***************************************************************************)
(* Session lifecycle of My-Physio-App: the Express session and patient     *)
(* routes (server/routes/sessions.js, the patients router), the client     *)
(* storage functions (utils/mongoStorage.ts) and the screens that call     *)
(* them (components/SessionForm.tsx, app/(tabs)/upcoming.tsx,              *)
(* app/patient-sessions.tsx), and the reminder functions                   *)
(* (utils/notifications.ts).                                               *)
(*                                                                         *)
(* Representation.  A canonical date string "YYYY-MM-DD" is the tuple      *)
(* <<year, month, day>> and a time string "HH:MM" is <<hour, minute>>:     *)
(* for fixed-width zero-padded fields the string order is the              *)
(* lexicographic order of the tuples.  An instant is a number of minutes   *)
(* since 2025-02-28T00:00Z.  A JSON body is a function whose DOMAIN is     *)
(* the set of keys it carries.                                             *)
(***************************************************************************)
EXTENDS Integers, Sequences, FiniteSets, TLC

\* ------------------------------------------------------------------ bounds
MaxPatients == 2
MaxSessions == 2
MaxViewSessions == 3
MaxDay == 1
MaxRemindSessions == 1
MaxReminders == 2
MaxApiSessions == 1
MaxPatchKeys == 2
MaxRequests == 3

\* ------------------------------------------------------------------ values
Users == {"u1", "u2"}
Amounts == {500}
Times == {<<9, 30>>, <<14, 0>>}
Offsets == {-300, 0, 330}
PatientIds == 1..MaxPatients
SessionIds == 1..MaxSessions
Days == 0..MaxDay

\* ---------------------------------------------------------------- calendar
IsLeap(y) == (y % 4 = 0 /\ y % 100 # 0) \/ y % 400 = 0

DaysInMonth(y, m) ==
  IF m = 2 THEN (IF IsLeap(y) THEN 29 ELSE 28)
  ELSE IF m \in {4, 6, 9, 11} THEN 30 ELSE 31

NextDay(c) ==
  IF c[3] < DaysInMonth(c[1], c[2]) THEN <<c[1], c[2], c[3] + 1>>
  ELSE IF c[2] < 12 THEN <<c[1], c[2] + 1, 1>>
  ELSE <<c[1] + 1, 1, 1>>

PrevDay(c) ==
  IF c[3] > 1 THEN <<c[1], c[2], c[3] - 1>>
  ELSE IF c[2] > 1 THEN <<c[1], c[2] - 1, DaysInMonth(c[1], c[2] - 1)>>
  ELSE <<c[1] - 1, 12, 31>>

EpochCivil == <<2025, 2, 28>>

RECURSIVE CivilFromDays(_)
CivilFromDays(n) ==
  IF n = 0 THEN EpochCivil
  ELSE IF n > 0 THEN NextDay(CivilFromDays(n - 1))
  ELSE PrevDay(CivilFromDays(n + 1))

\* Day number of a canonical date of the calendar window.
DaysFromCivil(c) == CHOOSE n \in -2..(MaxDay + 2) : CivilFromDays(n) = c

FloorDiv(a, b) == IF a >= 0 THEN a \div b ELSE -((-a + b - 1) \div b)

Dates == {CivilFromDays(n) : n \in Days}

\* new Date().toISOString().split('T')[0]: the UTC calendar date of instant t.
ToISODate(t) == CivilFromDays(FloorDiv(t, 1440))

\* formatDateForStorage(dateObj): the local year/month/day of instant t on a
\* device whose UTC offset is off minutes.
formatDateForStorage(t, off) == CivilFromDays(FloorDiv(t + off, 1440))

\* new Date("YYYY-MM-DD"): a date-only ISO string is parsed as UTC midnight.
ParseDateOnly(c) == DaysFromCivil(c) * 1440

\* new Date(`${date}T${time}`).getTime(): a date-time string without zone is
\* parsed as local time on a device whose UTC offset is off minutes.
ParseLocalDateTime(c, tm, off) ==
  DaysFromCivil(c) * 1440 + tm[1] * 60 + tm[2] - off

\* ------------------------------------------------------------ string order
RECURSIVE StrCmp(_, _)
StrCmp(a, b) ==
  IF a = <<>> /\ b = <<>> THEN 0
  ELSE IF a = <<>> THEN -1
  ELSE IF b = <<>> THEN 1
  ELSE IF Head(a) < Head(b) THEN -1
  ELSE IF Head(a) > Head(b) THEN 1
  ELSE StrCmp(Tail(a), Tail(b))

\* -------------------------------------------------------------- JSON values
\* A JSON / JavaScript value is a record tagged with its kind; a string is the
\* tuple of its fields or characters, the empty string is <<>>.
Undefined == [k |-> "undefined"]
Null == [k |-> "null"]
Num(n) == [k |-> "number", v |-> n]
Bool(b) == [k |-> "boolean", v |-> b]
Str(s) == [k |-> "string", v |-> s]

\* JavaScript truthiness, as used by `if (x)`, `!x` and `x || y`.
Truthy(x) ==
  CASE x.k = "undefined" -> FALSE
    [] x.k = "null" -> FALSE
    [] x.k = "boolean" -> x.v
    [] x.k = "number" -> x.v # 0
    [] x.k = "string" -> x.v # <<>>

\* JSON.stringify drops every key whose value is undefined.
JsonStringify(obj) == [key \in {x \in DOMAIN obj : obj[x] # Undefined} |-> obj[key]]

\* Destructuring req.body: a key the body does not carry reads undefined.
Field(body, key) == IF key \in DOMAIN body THEN body[key] ELSE Undefined

\* ------------------------------------------------------------------- state
\* patients : patient id -> owner id, for the Patient documents that exist
\* sessions : session id -> Session document, for the documents that exist
\* nextPid, nextSid : the next generated _id of each collection
\* lastOp   : the last request made and the status the caller received
\*            (status 0: the handler sent no request)
\* now      : the device clock, an instant
\* scheduled : the reminders registered with expo-notifications and not yet
\*            delivered or cancelled
\* nextNid  : the next notification identifier expo-notifications hands out
\* ui       : what the last handler showed: the form's outcome (onSave called
\*            or the failure alert) and the return scheduleSessionNotification
\*            took, and whether the form is still in its submitting state
\* inflight : request number -> a route handler's locals once it has passed
\*            its lookup: suspended at `await session.save()`, or answered
VARIABLES patients, sessions, nextPid, nextSid, lastOp, now, scheduled, nextNid, ui,
          inflight

vars == <<patients, sessions, nextPid, nextSid, lastOp, now, scheduled, nextNid, ui,
          inflight>>

Op(name, u, id, status) == [op |-> name, caller |-> u, target |-> id, status |-> status]

\* A handler that neither submits the form nor touches reminders.
NoUi == [outcome |-> "none", notify |-> "none", submitting |-> FALSE]
Quiet == ui' = NoUi /\ UNCHANGED <<now, scheduled, nextNid, inflight>>

\* Every session of the window lies in the past.
Init ==
  /\ patients = <<>>
  /\ sessions = <<>>
  /\ nextPid = 1
  /\ nextSid = 1
  /\ lastOp = Op("init", "u1", 0, 0)
  /\ now = (MaxDay + 2) * 1440
  /\ scheduled = {}
  /\ nextNid = 1
  /\ ui = NoUi
  /\ inflight = <<>>

\* ------------------------------------------------------------ patient routes
\* Patient.findOne({ _id: id, userId }): the id, or 0 when there is none.
FindOnePatient(pats, id, u) ==
  IF id \in DOMAIN pats /\ pats[id] = u THEN id ELSE 0

\* POST /patients with a name and a contact number.
PostPatient(u) ==
  /\ patients' = [p \in DOMAIN patients \cup {nextPid} |->
                    IF p = nextPid THEN u ELSE patients[p]]
  /\ nextPid' = nextPid + 1
  /\ lastOp' = Op("createPatient", u, nextPid, 201)
  /\ UNCHANGED <<sessions, nextSid>>
  /\ Quiet

\* The Session documents left after DELETE /patients/:id removed patient id.
SessionsAfterPatientDelete(st, id) == st

\* DELETE /patients/:id.
DeletePatient(u, id) ==
  /\ IF id \in DOMAIN patients /\ patients[id] = u
     THEN /\ patients' = [p \in DOMAIN patients \ {id} |-> patients[p]]
          /\ sessions' = SessionsAfterPatientDelete(sessions, id)
          /\ lastOp' = Op("deletePatient", u, id, 200)
          /\ UNCHANGED <<nextPid, nextSid>>
     ELSE /\ lastOp' = Op("deletePatient", u, id, 404)
          /\ UNCHANGED <<patients, sessions, nextPid, nextSid>>
  /\ Quiet

\* ------------------------------------------------------------ session routes
\* Mutant: the lookup by _id alone.
FindOneSessionAnyOwner(st, id, u) ==
  IF id \in DOMAIN st THEN id ELSE 0

\* Session.findOne({ _id: id, userId }): the id, or 0 when there is none.
FindOneSession(st, id, u) ==
  IF id \in DOMAIN st /\ st[id].userId = u THEN id ELSE 0

\* transformSession: the document as the response carries it.
transformSession(st, id) ==
  [id |-> Num(id), userId |-> Str(<<st[id].userId>>), patientId |-> Num(st[id].patientId),
   patientName |-> Str(st[id].patientName), date |-> Str(st[id].date),
   time |-> Str(st[id].time), notes |-> Str(st[id].notes),
   completed |-> Bool(st[id].completed), amount |-> st[id].amount]

\* Mutant: the owner id taken from the body when it carries one.
NewSessionBodyOwner(u, body) ==
  [userId |-> IF "userId" \in DOMAIN body THEN body.userId.v[1] ELSE u,
   patientId |-> body.patientId.v,
   patientName |-> body.patientName.v,
   date |-> body.date.v,
   time |-> body.time.v,
   notes |-> IF Truthy(Field(body, "notes")) THEN body.notes.v ELSE <<>>,
   completed |-> IF Truthy(Field(body, "completed")) THEN body.completed.v ELSE FALSE,
   amount |-> IF Truthy(Field(body, "amount")) THEN body.amount ELSE Null]

\* The document POST /sessions constructs for an accepted body.
NewSession(u, body) ==
  [userId |-> u,
   patientId |-> body.patientId.v,
   patientName |-> body.patientName.v,
   date |-> body.date.v,
   time |-> body.time.v,
   notes |-> IF Truthy(Field(body, "notes")) THEN body.notes.v ELSE <<>>,
   completed |-> IF Truthy(Field(body, "completed")) THEN body.completed.v ELSE FALSE,
   amount |-> IF Truthy(Field(body, "amount")) THEN body.amount ELSE Null]

\* Mutant: POST /sessions without the patient lookup.
PostSessionStatusNoLookup(u, body) ==
  IF \/ ~Truthy(Field(body, "patientId")) \/ ~Truthy(Field(body, "patientName"))
     \/ ~Truthy(Field(body, "date")) \/ ~Truthy(Field(body, "time"))
  THEN 400
  ELSE 201

\* Status of POST /sessions for caller u.
PostSessionStatus(u, body) ==
  IF \/ ~Truthy(Field(body, "patientId")) \/ ~Truthy(Field(body, "patientName"))
     \/ ~Truthy(Field(body, "date")) \/ ~Truthy(Field(body, "time"))
  THEN 400
  ELSE IF FindOnePatient(patients, body.patientId.v, u) = 0 THEN 404
  ELSE 201

\* POST /sessions.
PostSession(name, u, body) ==
  /\ LET status == PostSessionStatus(u, body) IN
       /\ lastOp' = Op(name, u, nextSid, status)
       /\ IF status = 201
          THEN /\ sessions' = [s \in DOMAIN sessions \cup {nextSid} |->
                                 IF s = nextSid THEN NewSession(u, body) ELSE sessions[s]]
               /\ nextSid' = nextSid + 1
          ELSE UNCHANGED <<sessions, nextSid>>
  /\ UNCHANGED <<patients, nextPid>>

\* The "Update fields" block of PUT /sessions/:id applied to document doc.
ApplyUpdate(doc, body) ==
  LET patientId == Field(body, "patientId")
      patientName == Field(body, "patientName")
      date == Field(body, "date")
      time == Field(body, "time")
      notes == Field(body, "notes")
      completed == Field(body, "completed")
      amount == Field(body, "amount")
  IN [userId |-> doc.userId,
      patientId |-> IF Truthy(patientId) THEN patientId.v ELSE doc.patientId,
      patientName |-> IF Truthy(patientName) THEN patientName.v ELSE doc.patientName,
      date |-> IF Truthy(date) THEN date.v ELSE doc.date,
      time |-> IF Truthy(time) THEN time.v ELSE doc.time,
      notes |-> IF notes # Undefined THEN notes.v ELSE doc.notes,
      completed |-> IF completed # Undefined THEN completed.v ELSE doc.completed,
      amount |-> IF amount # Undefined THEN amount ELSE doc.amount]

\* PUT /sessions/:id.
PutSession(name, u, id, body) ==
  LET found == FindOneSession(sessions, id, u) IN
  IF found = 0
  THEN /\ lastOp' = Op(name, u, id, 404)
       /\ UNCHANGED <<patients, sessions, nextPid, nextSid>>
  ELSE /\ sessions' = [sessions EXCEPT ![found] = ApplyUpdate(sessions[found], body)]
       /\ lastOp' = Op(name, u, id, 200)
       /\ UNCHANGED <<patients, nextPid, nextSid>>

\* Mutant: the delete removes every session of the caller.
DeleteSessionRouteAllOwned(name, u, id) ==
  LET found == FindOneSession(sessions, id, u) IN
  IF found = 0
  THEN /\ lastOp' = Op(name, u, id, 404)
       /\ UNCHANGED <<patients, sessions, nextPid, nextSid>>
  ELSE /\ sessions' = [s \in {x \in DOMAIN sessions : sessions[x].userId # u} |-> sessions[s]]
       /\ lastOp' = Op(name, u, id, 200)
       /\ UNCHANGED <<patients, nextPid, nextSid>>

\* DELETE /sessions/:id.
DeleteSessionRoute(name, u, id) ==
  LET found == FindOneSession(sessions, id, u) IN
  IF found = 0
  THEN /\ lastOp' = Op(name, u, id, 404)
       /\ UNCHANGED <<patients, sessions, nextPid, nextSid>>
  ELSE /\ sessions' = [s \in DOMAIN sessions \ {id} |-> sessions[s]]
       /\ lastOp' = Op(name, u, id, 200)
       /\ UNCHANGED <<patients, nextPid, nextSid>>

\* ------------------------------------------------------------------ queries
Max(S) == CHOOSE m \in S : \A x \in S : x <= m

\* Mutant: the sort on date alone.
SortCmpDateOnly(st, a, b, dateDir, timeDir) ==
  dateDir * StrCmp(st[a].date, st[b].date)

\* Order of two documents under .sort({ date: dateDir, time: timeDir }).
SortCmp(st, a, b, dateDir, timeDir) ==
  LET d == StrCmp(st[a].date, st[b].date) IN
  IF d # 0 THEN dateDir * d ELSE timeDir * StrCmp(st[a].time, st[b].time)

RECURSIVE InsertSorted(_, _, _, _, _)
InsertSorted(st, q, x, dateDir, timeDir) ==
  IF q = <<>> THEN <<x>>
  ELSE IF SortCmp(st, x, Head(q), dateDir, timeDir) < 0 THEN <<x>> \o q
  ELSE <<Head(q)>> \o InsertSorted(st, Tail(q), x, dateDir, timeDir)

\* Session.find(...).sort(...): the matching ids S in sort order, documents
\* with equal keys in insertion order.
RECURSIVE MongoSort(_, _, _, _)
MongoSort(st, S, dateDir, timeDir) ==
  IF S = {} THEN <<>>
  ELSE InsertSorted(st, MongoSort(st, S \ {Max(S)}, dateDir, timeDir), Max(S),
                    dateDir, timeDir)

Response(st, q) == [status |-> 200, sessions |-> [i \in 1..Len(q) |-> transformSession(st, q[i])]]
Failure(code) == [status |-> code, sessions |-> <<>>]

\* GET /sessions with the query string the client built.
GetSessionsRoute(st, u, query) ==
  LET patientId == Field(query, "patientId")
      startDate == Field(query, "startDate")
      endDate == Field(query, "endDate")
      completed == Field(query, "completed")
      S == {s \in DOMAIN st :
              /\ st[s].userId = u
              /\ Truthy(patientId) => st[s].patientId = patientId.v
              /\ completed # Undefined => st[s].completed = (completed = Str(<<"true">>))
              /\ Truthy(startDate) => StrCmp(st[s].date, startDate.v) >= 0
              /\ Truthy(endDate) => StrCmp(st[s].date, endDate.v) <= 0}
  IN Response(st, MongoSort(st, S, -1, -1))

\* GET /sessions/patient/:patientId.
GetPatientSessionsRoute(pats, st, u, patientId) ==
  IF FindOnePatient(pats, patientId, u) = 0 THEN Failure(404)
  ELSE Response(st, MongoSort(st, {s \in DOMAIN st :
                  st[s].userId = u /\ st[s].patientId = patientId}, -1, -1))

\* Mutant: the past query without the userId criterion.
GetPastRouteAllOwners(st, u) ==
  Response(st, MongoSort(st, {s \in DOMAIN st : st[s].completed = TRUE}, -1, -1))

\* GET /sessions/past.
GetPastRoute(st, u) ==
  Response(st, MongoSort(st, {s \in DOMAIN st : st[s].userId = u /\ st[s].completed = TRUE},
                         -1, -1))

\* Mutant: the upcoming query without the completed criterion.
GetUpcomingRouteAnyStatus(st, u) ==
  Response(st, MongoSort(st, {s \in DOMAIN st : st[s].userId = u}, 1, 1))

\* GET /sessions/upcoming.
GetUpcomingRoute(st, u) ==
  Response(st, MongoSort(st, {s \in DOMAIN st : st[s].userId = u /\ st[s].completed = FALSE},
                         1, 1))

\* GET /sessions/:id.
GetByIdRoute(st, u, id) ==
  IF FindOneSession(st, id, u) = 0 THEN [status |-> 404, error |-> "Session not found"]
  ELSE [status |-> 200, session |-> transformSession(st, id)]

\* ---------------------------------------------------------- client functions
\* The client list functions return response.sessions, and [] when apiCall threw.
ListOf(resp) == IF resp.status = 200 THEN resp.sessions ELSE <<>>

getSessions(st, u) == ListOf(GetSessionsRoute(st, u, <<>>))
getPastSessions(st, u) == ListOf(GetPastRoute(st, u))
getUpcomingSessions(st, u) == ListOf(GetUpcomingRoute(st, u))
getPatientSessions(pats, st, u, patientId) ==
  ListOf(GetPatientSessionsRoute(pats, st, u, patientId))

\* How a client call ends for its caller: the promise resolves to a value or
\* rejects with an error.
Resolved(v) == [outcome |-> "resolved", value |-> v]
Rejected(e) == [outcome |-> "rejected", error |-> e]

\* apiCall: throws when the response is not ok (or fetch itself failed, status
\* 0), and returns the response body otherwise.
apiCall(resp) ==
  IF resp.status \in {200, 201} THEN Resolved(resp) ELSE Rejected(resp.status)

\* The try/catch of the list functions: response.sessions, and [] from the
\* catch block.
ListOutcome(resp) ==
  IF apiCall(resp).outcome = "resolved" THEN Resolved(apiCall(resp).value.sessions)
  ELSE Resolved(<<>>)

\* getSessionById: response.session, and null from the catch block.
getSessionById(resp) ==
  IF apiCall(resp).outcome = "resolved" THEN Resolved(apiCall(resp).value.session)
  ELSE Resolved(Null)

\* getFilteredSessions(filters): the query string carries patientId,
\* startDate and endDate when they are truthy, and nothing else.
getFilteredSessions(st, u, filters) ==
  LET queryParams ==
        [patientId |-> IF Truthy(Field(filters, "patientId")) THEN filters.patientId
                       ELSE Undefined,
         startDate |-> IF Truthy(Field(filters, "startDate")) THEN filters.startDate
                       ELSE Undefined,
         endDate |-> IF Truthy(Field(filters, "endDate")) THEN filters.endDate
                     ELSE Undefined]
  IN ListOf(GetSessionsRoute(st, u, JsonStringify(queryParams)))

\* Array.prototype.filter.
RECURSIVE SeqFilter(_, _)
SeqFilter(q, keep) ==
  IF q = <<>> THEN <<>>
  ELSE IF Head(q) \in keep THEN <<Head(q)>> \o SeqFilter(Tail(q), keep)
  ELSE SeqFilter(Tail(q), keep)

\* getTodaySessions() called at instant t.
getTodaySessions(st, u, t) ==
  LET all == getSessions(st, u)
      today == ToISODate(t)
  IN SeqFilter(all, {x \in {all[i] : i \in 1..Len(all)} : x.date = Str(today)})

\* Array.prototype.sort with the comparator of patient-sessions.tsx (stable):
\* dir = 1 ascending, dir = -1 descending by getTime() of `${date}T${time}`.
RECURSIVE InsertByTime(_, _, _, _)
InsertByTime(q, x, dir, off) ==
  IF q = <<>> THEN <<x>>
  ELSE IF dir * (ParseLocalDateTime(x.date.v, x.time.v, off)
                 - ParseLocalDateTime(Head(q).date.v, Head(q).time.v, off)) < 0
       THEN <<x>> \o q
  ELSE <<Head(q)>> \o InsertByTime(Tail(q), x, dir, off)

RECURSIVE SortByTime(_, _, _)
SortByTime(q, dir, off) ==
  IF q = <<>> THEN <<>>
  ELSE InsertByTime(SortByTime(SubSeq(q, 1, Len(q) - 1), dir, off), q[Len(q)], dir, off)

\* loadSessions of patient-sessions.tsx: the list the screen shows.
PatientScreenSessions(pats, st, u, patientId, showPastSessions, off) ==
  LET allSessions == getPatientSessions(pats, st, u, patientId)
      filteredByStatus ==
        SeqFilter(allSessions, {x \in {allSessions[i] : i \in 1..Len(allSessions)} :
                                  x.completed = Bool(showPastSessions)})
  IN SortByTime(filteredByStatus, IF showPastSessions THEN -1 ELSE 1, off)

\* ------------------------------------------------------------ client actions
\* A Date the date picker hands back for local day d on a device at offset off.
PickedDate(d, off) == d * 1440 + 1410 - off

\* new Date(`2000-01-01T${time}`), in minutes since that day's UTC midnight.
ParseLocalTime(tm, off) == tm[1] * 60 + tm[2] - off

\* formatTimeForStorage(timeDate): local 24-hour "HH:MM".
formatTimeForStorage(x, off) == <<((x + off) % 1440) \div 60, ((x + off) % 1440) % 60>>

\* getPatientNameById(id) over the caller's loaded patient list.
getPatientNameById(u, id) ==
  IF FindOnePatient(patients, id, u) # 0 THEN <<"Asha">> ELSE <<>>

\* updateSession(updatedSession): PUT /sessions/:id with the stringified object.
updateSession(name, u, obj) == PutSession(name, u, obj.id.v, JsonStringify(obj))

\* ---------------------------------------------------------------- reminders
Platforms == {"ios", "web"}

\* Mutant: the reminder set at the session's own start.
NotificationDateAtStart(date, tm, off) == ParseLocalDateTime(date, tm, off)

\* notificationDate: one hour before new Date(`${session.date}T${session.time}`).
NotificationDate(date, tm, off) == ParseLocalDateTime(date, tm, off) - 60

\* The return scheduleSessionNotification takes on a device of the given
\* platform and offset; fails says that scheduleNotificationAsync throws.
ScheduleOutcome(date, tm, off, platform, fails) ==
  IF platform = "web" THEN "web"
  ELSE IF NotificationDate(date, tm, off) <= now THEN "past"
  ELSE IF fails THEN "failed"
  ELSE "registered"

\* scheduleSessionNotification(session): its effect on expo-notifications.
scheduleSessionNotification(sessionId, date, tm, off, platform, fails) ==
  IF ScheduleOutcome(date, tm, off, platform, fails) = "registered"
  THEN /\ scheduled' = scheduled \cup
                          {[nid |-> nextNid, sessionId |-> sessionId,
                            trigger |-> NotificationDate(date, tm, off)]}
       /\ nextNid' = nextNid + 1
  ELSE UNCHANGED <<scheduled, nextNid>>

\* cancelNotification(notificationId); fails says that
\* cancelScheduledNotificationAsync throws.
cancelNotification(notificationId, platform, fails) ==
  /\ scheduled' = IF platform = "web" \/ fails THEN scheduled
                  ELSE {r \in scheduled : r.nid # notificationId}
  /\ ui' = [outcome |-> "none",
            notify |-> IF platform = "web" THEN "web"
                       ELSE IF fails THEN "cancelFailed" ELSE "cancelled",
            submitting |-> FALSE]
  /\ UNCHANGED <<patients, sessions, nextPid, nextSid, lastOp, now, nextNid, inflight>>

\* The clock reaches instant t; expo-notifications delivers the reminders
\* whose date trigger has come.
Tick(t) ==
  /\ t > now
  /\ now' = t
  /\ scheduled' = {r \in scheduled : r.trigger > t}
  /\ UNCHANGED <<patients, sessions, nextPid, nextSid, lastOp, nextNid, ui, inflight>>

\* The reminders registered for session id that are still pending.
PendingFor(id) == {r \in scheduled : r.sessionId = id}

\* Mutant: a failed scheduling call reaches handleSubmit's catch block.
SubmitOutcomeRethrow(status, notify) ==
  IF status \in {200, 201} /\ notify # "failed" THEN "saved" ELSE "alert"

\* handleSubmit's try/catch: onSave is reached when the awaited write did not
\* throw (scheduleSessionNotification never throws), the alert otherwise.
SubmitOutcome(status, notify) ==
  IF status \in {200, 201} THEN "saved" ELSE "alert"

\* handleSubmit's finally block: setIsSubmitting(false) on every way out of
\* the try block, whatever the write answered.
SubmittingAfter(status) == FALSE

\* SessionForm.handleSubmit, create branch.  amountText is the parsed amount
\* field, Undefined when the field is blank.
FormCreate(u, patientId, d, tm, off, amountText, platform, fails) ==
  /\ formatDateForStorage(PickedDate(d, off), off) \in Dates
  /\ LET sessionData ==
           [patientId |-> Num(patientId),
            patientName |-> Str(getPatientNameById(u, patientId)),
            date |-> Str(formatDateForStorage(PickedDate(d, off), off)),
            time |-> Str(formatTimeForStorage(ParseLocalTime(tm, off), off)),
            notes |-> Str(<<>>),
            completed |-> Bool(FALSE),
            amount |-> amountText]
     IN /\ PostSession("create", u, JsonStringify(sessionData))
        /\ IF PostSessionStatus(u, JsonStringify(sessionData)) = 201
           THEN /\ scheduleSessionNotification(nextSid, sessionData.date.v,
                                               sessionData.time.v, off, platform, fails)
                /\ LET notify == ScheduleOutcome(sessionData.date.v, sessionData.time.v,
                                                 off, platform, fails)
                   IN ui' = [outcome |-> SubmitOutcome(201, notify), notify |-> notify,
                             submitting |-> SubmittingAfter(201)]
           ELSE /\ ui' = [outcome |-> SubmitOutcome(
                                        PostSessionStatus(u, JsonStringify(sessionData)),
                                        "none"),
                          notify |-> "none",
                          submitting |-> SubmittingAfter(
                                           PostSessionStatus(u, JsonStringify(sessionData)))]
                /\ UNCHANGED <<scheduled, nextNid>>
        /\ UNCHANGED <<now, inflight>>

\* SessionForm.handleSubmit, edit branch, for the caller's session s.  The form
\* state starts from the existing session (amount.toString() throws on a null
\* amount, so the form opens only on a session with an amount); dPick = -1 and
\* tmPick = <<>> stand for a field the user left alone.
FormEdit(u, s, patientId, dPick, tmPick, off, amountText, platform, fails) ==
  /\ FindOneSession(sessions, s, u) # 0
  /\ sessions[s].amount # Null
  /\ LET existingSession == transformSession(sessions, s)
         date == IF dPick = -1 THEN ParseDateOnly(sessions[s].date)
                 ELSE PickedDate(dPick, off)
         time == IF tmPick = <<>> THEN ParseLocalTime(sessions[s].time, off)
                 ELSE ParseLocalTime(tmPick, off)
         updatedSessionData ==
           [existingSession EXCEPT
              !.patientId = Num(patientId),
              !.patientName = Str(getPatientNameById(u, patientId)),
              !.date = Str(formatDateForStorage(date, off)),
              !.time = Str(formatTimeForStorage(time, off)),
              !.notes = Str(sessions[s].notes),
              !.amount = amountText]
     IN /\ formatDateForStorage(date, off) \in Dates
        /\ updateSession("edit", u, updatedSessionData)
        /\ scheduleSessionNotification(s, updatedSessionData.date.v,
                                       updatedSessionData.time.v, off, platform, fails)
        /\ LET notify == ScheduleOutcome(updatedSessionData.date.v,
                                         updatedSessionData.time.v, off, platform, fails)
           IN ui' = [outcome |-> SubmitOutcome(200, notify), notify |-> notify,
                     submitting |-> SubmittingAfter(200)]
        /\ UNCHANGED <<now, inflight>>

\* Mutant: the reminder is requested before the awaited write has answered.
FormEditStaleSchedulesFirst(u, s, patientId, d, tm, off, platform, fails) ==
  /\ s < nextSid /\ FindOneSession(sessions, s, u) = 0
  /\ LET updatedSessionData ==
           [id |-> Num(s), userId |-> Str(<<u>>), patientId |-> Num(patientId),
            patientName |-> Str(getPatientNameById(u, patientId)),
            date |-> Str(formatDateForStorage(PickedDate(d, off), off)),
            time |-> Str(formatTimeForStorage(ParseLocalTime(tm, off), off)),
            notes |-> Str(<<>>), completed |-> Bool(FALSE), amount |-> Undefined]
     IN /\ formatDateForStorage(PickedDate(d, off), off) \in Dates
        /\ updateSession("edit", u, updatedSessionData)
        /\ scheduleSessionNotification(s, updatedSessionData.date.v,
                                       updatedSessionData.time.v, off, platform, fails)
        /\ ui' = [outcome |-> SubmitOutcome(404, "none"), notify |-> "none",
                  submitting |-> SubmittingAfter(404)]
        /\ UNCHANGED <<now, inflight>>

\* SessionForm.handleSubmit, edit branch, when the session the form was opened
\* on has been deleted since: updateSession is answered 404 and throws, the
\* catch block shows the alert, and the scheduling call and onSave are skipped.
FormEditStale(u, s, patientId, d, tm, off, platform, fails) ==
  /\ s < nextSid /\ FindOneSession(sessions, s, u) = 0
  /\ LET updatedSessionData ==
           [id |-> Num(s), userId |-> Str(<<u>>), patientId |-> Num(patientId),
            patientName |-> Str(getPatientNameById(u, patientId)),
            date |-> Str(formatDateForStorage(PickedDate(d, off), off)),
            time |-> Str(formatTimeForStorage(ParseLocalTime(tm, off), off)),
            notes |-> Str(<<>>), completed |-> Bool(FALSE), amount |-> Undefined]
     IN /\ formatDateForStorage(PickedDate(d, off), off) \in Dates
        /\ updateSession("edit", u, updatedSessionData)
        /\ ui' = [outcome |-> SubmitOutcome(404, "none"), notify |-> "none",
                  submitting |-> SubmittingAfter(404)]
        /\ UNCHANGED <<now, scheduled, nextNid, inflight>>

\* handleToggleComplete(session, false): the toggle a completed card shows.
HandleToggleIncomplete(u, s) ==
  /\ FindOneSession(sessions, s, u) # 0
  /\ sessions[s].completed
  /\ LET session == transformSession(sessions, s)
         updatedSession == [session EXCEPT !.completed = Bool(FALSE), !.amount = Undefined]
     IN updateSession("reopen", u, updatedSession)
  /\ Quiet

\* Mutant: the completed branch updates the session as the other branch does.
HandleToggleCompleteUpdates(u, s) ==
  /\ FindOneSession(sessions, s, u) # 0
  /\ ~sessions[s].completed
  /\ LET session == transformSession(sessions, s)
         updatedSession == [session EXCEPT !.completed = Bool(TRUE)]
     IN updateSession("toggleComplete", u, updatedSession)
  /\ Quiet

\* handleToggleComplete(session, true) of the upcoming screen, for an
\* incomplete session s of the caller: the 'Cannot Complete' alert and nothing
\* else (no updateSession, no loadSessions).
HandleToggleComplete(u, s) ==
  /\ FindOneSession(sessions, s, u) # 0
  /\ ~sessions[s].completed
  /\ lastOp' = Op("toggleComplete", u, s, 0)
  /\ ui' = [outcome |-> "cannotComplete", notify |-> "none", submitting |-> FALSE]
  /\ UNCHANGED <<patients, sessions, nextPid, nextSid, now, scheduled, nextNid, inflight>>

\* handlePaymentConfirm(amount) for sessionToComplete = the caller's session s.
HandlePaymentConfirm(u, s, amount) ==
  /\ FindOneSession(sessions, s, u) # 0
  /\ LET sessionToComplete == transformSession(sessions, s)
         updatedSession == [sessionToComplete EXCEPT !.completed = Bool(TRUE),
                                                     !.amount = Num(amount)]
     IN updateSession("complete", u, updatedSession)
  /\ Quiet

\* updateSession called with any Session object.
UpdateSessionCall(u, id, patientId, date, tm, completed, amount) ==
  /\ updateSession("update", u,
       [id |-> Num(id), userId |-> Str(<<u>>), patientId |-> Num(patientId),
        patientName |-> Str(<<"Asha">>), date |-> Str(date), time |-> Str(tm),
        notes |-> Str(<<>>), completed |-> Bool(completed), amount |-> amount])
  /\ Quiet

\* handleDeleteSession's confirmed delete: deleteSession(id).
deleteSession(u, id) == DeleteSessionRoute("deleteSession", u, id) /\ Quiet

\* The patient picker of the edit form lists the caller's patients; the form
\* starts on the session's own patient.
PickerOffers(u, s, p) ==
  \/ FindOnePatient(patients, p, u) # 0
  \/ s \in DOMAIN sessions /\ sessions[s].patientId = p

AmountInputs == {Undefined} \cup {Num(a) : a \in Amounts}

\* Two owners, their patients and sessions; one date and one time of day.
Next ==
  \/ \E u \in Users : nextPid <= MaxPatients /\ PostPatient(u)
  \/ \E u \in Users, id \in PatientIds : DeletePatient(u, id)
  \/ \E u \in Users, p \in PatientIds, a \in AmountInputs :
        nextSid <= MaxSessions /\ FormCreate(u, p, 0, <<9, 30>>, 0, a, "ios", FALSE)
  \/ \E u \in Users, s \in SessionIds, p \in PatientIds, d \in {-1, 0},
        a \in AmountInputs :
        PickerOffers(u, s, p) /\ FormEdit(u, s, p, d, <<>>, 0, a, "ios", FALSE)
  \/ \E u \in Users, s \in SessionIds : HandleToggleIncomplete(u, s)
  \/ \E u \in Users, s \in SessionIds, a \in Amounts : HandlePaymentConfirm(u, s, a)
  \/ \E u \in Users, s \in SessionIds, p \in PatientIds, c \in BOOLEAN,
        a \in AmountInputs :
        UpdateSessionCall(u, s, p, EpochCivil, <<9, 30>>, c, a)
  \/ \E u \in Users, s \in SessionIds : deleteSession(u, s)

Spec == Init /\ [][Next]_vars

\* Session creates and updates only (and the patients they refer to).
NextCU ==
  \/ \E u \in Users : nextPid <= MaxPatients /\ PostPatient(u)
  \/ \E u \in Users, p \in PatientIds, a \in AmountInputs :
        nextSid <= MaxSessions /\ FormCreate(u, p, 0, <<9, 30>>, 0, a, "ios", FALSE)
  \/ \E u \in Users, s \in SessionIds, p \in PatientIds, d \in {-1, 0},
        a \in AmountInputs :
        PickerOffers(u, s, p) /\ FormEdit(u, s, p, d, <<>>, 0, a, "ios", FALSE)
  \/ \E u \in Users, s \in SessionIds : HandleToggleIncomplete(u, s)
  \/ \E u \in Users, s \in SessionIds, a \in Amounts : HandlePaymentConfirm(u, s, a)
  \/ \E u \in Users, s \in SessionIds, p \in PatientIds, c \in BOOLEAN,
        a \in AmountInputs :
        UpdateSessionCall(u, s, p, EpochCivil, <<9, 30>>, c, a)

SpecCU == Init /\ [][NextCU]_vars

\* One owner's sessions over every date and time of day, created on devices
\* at every offset, then completed.
NextViews ==
  \/ nextPid = 1 /\ PostPatient("u1")
  \/ \E d \in Days, tm \in Times, off \in Offsets :
        nextSid <= MaxViewSessions /\ FormCreate("u1", 1, d, tm, off, Undefined, "ios", FALSE)
  \/ \E s \in 1..MaxViewSessions, a \in Amounts : HandlePaymentConfirm("u1", s, a)

SpecViews == Init /\ [][NextViews]_vars

\* The clock starts before every session of the window.
InitRemind ==
  /\ patients = <<>>
  /\ sessions = <<>>
  /\ nextPid = 1
  /\ nextSid = 1
  /\ lastOp = Op("init", "u1", 0, 0)
  /\ now = 0
  /\ scheduled = {}
  /\ nextNid = 1
  /\ ui = NoUi
  /\ inflight = <<>>

\* The instants the clock is read at: 08:30 UTC of the first day, then the
\* following midnights.
ClockInstants == {510} \cup {d * 1440 : d \in 1..(MaxDay + 1)}

\* One owner's sessions and their reminders on devices of every platform and
\* offset, while the clock advances.
NextRemind ==
  \/ nextPid = 1 /\ PostPatient("u1")
  \/ \E d \in Days, tm \in Times, off \in Offsets, a \in AmountInputs,
        platform \in Platforms, fails \in BOOLEAN :
        /\ nextSid <= MaxRemindSessions /\ nextNid <= MaxReminders
        /\ FormCreate("u1", 1, d, tm, off, a, platform, fails)
  \/ \E s \in 1..MaxRemindSessions, d \in {-1} \cup Days, tm \in {<<>>} \cup Times,
        off \in Offsets, a \in AmountInputs, platform \in Platforms, fails \in BOOLEAN :
        /\ nextNid <= MaxReminders
        /\ FormEdit("u1", s, 1, d, tm, off, a, platform, fails)
  \/ \E s \in 1..MaxRemindSessions, a \in Amounts : HandlePaymentConfirm("u1", s, a)
  \/ \E s \in 1..MaxRemindSessions : deleteSession("u1", s)
  \/ \E t \in ClockInstants : Tick(t)

SpecRemind == InitRemind /\ [][NextRemind]_vars

\* One owner's form submits while the clock advances: creates (before the
\* patient exists and after), edits, and edits of a session deleted since.
NextSubmit ==
  \/ nextPid = 1 /\ PostPatient("u1")
  \/ \E d \in Days, tm \in Times, off \in Offsets, fails \in BOOLEAN :
        /\ nextSid <= MaxRemindSessions /\ nextNid <= MaxReminders
        /\ FormCreate("u1", 1, d, tm, off, Num(500), "ios", fails)
  \/ \E s \in 1..MaxRemindSessions, d \in Days, off \in Offsets, fails \in BOOLEAN :
        /\ nextNid <= MaxReminders
        /\ FormEdit("u1", s, 1, d, <<>>, off, Num(500), "ios", fails)
  \/ \E s \in 1..MaxRemindSessions, d \in Days, tm \in Times, off \in Offsets,
        fails \in BOOLEAN :
        FormEditStale("u1", s, 1, d, tm, off, "ios", fails)
  \/ \E s \in 1..MaxRemindSessions : deleteSession("u1", s)
  \/ \E t \in ClockInstants : Tick(t)

SpecSubmit == InitRemind /\ [][NextSubmit]_vars

\* Form submits on a native device whose scheduling call may throw, and
\* cancelNotification called on any notification identifier.
NextNotify ==
  \/ nextPid = 1 /\ PostPatient("u1")
  \/ \E d \in Days, tm \in Times, off \in Offsets, a \in Amounts, fails \in BOOLEAN :
        /\ nextSid <= MaxRemindSessions /\ nextNid <= MaxReminders
        /\ FormCreate("u1", 1, d, tm, off, Num(a), "ios", fails)
  \/ \E s \in 1..MaxRemindSessions, d \in {-1} \cup Days, tm \in {<<>>} \cup Times,
        off \in Offsets, a \in Amounts, fails \in BOOLEAN :
        /\ nextNid <= MaxReminders
        /\ FormEdit("u1", s, 1, d, tm, off, Num(a), "ios", fails)
  \/ \E nid \in 1..MaxReminders, platform \in Platforms, fails \in BOOLEAN :
        cancelNotification(nid, platform, fails)
  \/ \E t \in ClockInstants : Tick(t)

SpecNotify == InitRemind /\ [][NextNotify]_vars

\* A raw POST /sessions by caller u.
PostRequest(u, body) == PostSession("post", u, body) /\ Quiet

\* A raw PUT /sessions/:id by caller u.
PutRequest(u, id, body) == PutSession("put", u, id, body) /\ Quiet

OtherUser(u) == CHOOSE v \in Users : v # u

\* Request bodies of POST /sessions that name another owner: a complete body
\* for any patient id, and the same with one required field left out or empty.
PostBodies(u) ==
  LET full(p) == [userId |-> Str(<<OtherUser(u)>>), patientId |-> Num(p),
                  patientName |-> Str(<<"Asha">>), date |-> Str(EpochCivil),
                  time |-> Str(<<9, 30>>), notes |-> Undefined,
                  completed |-> Undefined, amount |-> Undefined]
  IN UNION {{JsonStringify(full(p)),
             JsonStringify([full(p) EXCEPT !.patientId = Undefined]),
             JsonStringify([full(p) EXCEPT !.patientName = Undefined]),
             JsonStringify([full(p) EXCEPT !.patientName = Str(<<>>)]),
             JsonStringify([full(p) EXCEPT !.date = Undefined]),
             JsonStringify([full(p) EXCEPT !.date = Str(<<>>)]),
             JsonStringify([full(p) EXCEPT !.time = Undefined])} : p \in PatientIds}

\* The values a PUT body may carry under each key.
PatchValues(u, id) ==
  [id |-> {Num(id + 1)},
   userId |-> {Str(<<OtherUser(u)>>)},
   patientId |-> {Num(p) : p \in PatientIds},
   patientName |-> {Str(<<>>), Str(<<"Bela">>)},
   date |-> {Str(<<>>), Str(CivilFromDays(MaxDay))},
   time |-> {Str(<<>>), Str(<<14, 0>>)},
   notes |-> {Str(<<>>), Str(<<"x">>)},
   completed |-> {Bool(TRUE), Bool(FALSE)},
   amount |-> {Null, Num(500)}]

\* Request bodies of PUT /sessions/:id that carry another session id and
\* another owner id, and at most MaxPatchKeys of the session's fields.
PatchBodies(u, id) ==
  LET V == PatchValues(u, id)
      fields == DOMAIN V \ {"id", "userId"}
      base == [k \in {"id", "userId"} |-> CHOOSE x \in V[k] : TRUE]
  IN UNION {{[k \in {"id", "userId"} \cup K |-> IF k \in K THEN f[k] ELSE base[k]] :
               f \in {g \in [K -> UNION {V[k] : k \in K}] : \A k \in K : g[k] \in V[k]}} :
             K \in {X \in SUBSET fields : Cardinality(X) <= MaxPatchKeys}}

\* Two owners send raw requests to the session routes.
NextApi ==
  \/ \E u \in Users : nextPid <= MaxPatients /\ PostPatient(u)
  \/ \E u \in Users : \E body \in PostBodies(u) :
        nextSid <= MaxApiSessions /\ PostRequest(u, body)
  \/ \E u \in Users, id \in 1..MaxApiSessions : \E body \in PatchBodies(u, id) :
        PutRequest(u, id, body)

SpecApi == Init /\ [][NextApi]_vars

\* Date and time strings a request may carry: canonical ones, and "1-3-2025"
\* (day first), "2025-3" (no day), "09:30:00" and "24:30".
RequestDates == Dates \cup {<<1, 3, 2025>>, <<2025, 3>>}
RequestTimes == Times \cup {<<9, 30, 0>>, <<24, 30>>}

\* POST requests of one owner and PUT requests of both, whose date and time
\* are any strings.
NextFormat ==
  \/ nextPid = 1 /\ PostPatient("u1")
  \/ \E date \in RequestDates, tm \in RequestTimes :
        /\ nextSid <= MaxApiSessions
        /\ PostRequest("u1", [patientId |-> Num(1), patientName |-> Str(<<"Asha">>),
                              date |-> Str(date), time |-> Str(tm)])
  \/ \E u \in Users, id \in 1..MaxApiSessions, date \in RequestDates, c \in BOOLEAN :
        PutRequest(u, id, [date |-> Str(date), completed |-> Bool(c)])
  \/ \E u \in Users, id \in 1..MaxApiSessions, tm \in RequestTimes,
        notes \in {<<>>, <<"x">>} :
        PutRequest(u, id, [time |-> Str(tm), notes |-> Str(notes)])

SpecFormat == Init /\ [][NextFormat]_vars

\* Two owners on the upcoming screen: sessions added by the form, the toggle
\* of either kind, the payment confirmation and the delete.
NextUpcoming ==
  \/ \E u \in Users : nextPid <= MaxPatients /\ PostPatient(u)
  \/ \E u \in Users, p \in PatientIds, a \in AmountInputs :
        nextSid <= MaxSessions /\ FormCreate(u, p, 0, <<9, 30>>, 0, a, "ios", FALSE)
  \/ \E u \in Users, s \in SessionIds : HandleToggleComplete(u, s)
  \/ \E u \in Users, s \in SessionIds : HandleToggleIncomplete(u, s)
  \/ \E u \in Users, s \in SessionIds, a \in Amounts : HandlePaymentConfirm(u, s, a)
  \/ \E u \in Users, s \in SessionIds : deleteSession(u, s)

SpecUpcoming == Init /\ [][NextUpcoming]_vars

\* The amounts a request body may carry, and the amounts parseFloat returns
\* for what the decimal pad of the form's amount field can enter.
RequestAmounts == {-5, 0, 500}
FormAmounts == {Undefined, Num(0), Num(500)}

\* One owner's creates and updates, by the form and by raw requests, with
\* amounts of every sign.
NextAmount ==
  \/ nextPid = 1 /\ PostPatient("u1")
  \/ \E a \in RequestAmounts :
        /\ nextSid <= MaxSessions
        /\ PostRequest("u1", [patientId |-> Num(1), patientName |-> Str(<<"Asha">>),
                              date |-> Str(EpochCivil), time |-> Str(<<9, 30>>),
                              amount |-> Num(a)])
  \/ \E a \in FormAmounts :
        nextSid <= MaxSessions /\ FormCreate("u1", 1, 0, <<9, 30>>, 0, a, "ios", FALSE)
  \/ \E s \in SessionIds, a \in FormAmounts :
        FormEdit("u1", s, 1, -1, <<>>, 0, a, "ios", FALSE)
  \/ \E s \in SessionIds, a \in RequestAmounts, c \in BOOLEAN :
        PutRequest("u1", s, [completed |-> Bool(c), amount |-> Num(a)])

SpecAmount == Init /\ [][NextAmount]_vars

\* ------------------------------------------------- concurrent route handlers
\* Each `await` of a route handler is a point where another request's handler
\* may run.  The handlers are split at `await session.save()`.
Awaiting(r) == r \in DOMAIN inflight /\ inflight[r].pc = "await"

Request(kind, u, id, body, doc, pc, status) ==
  [kind |-> kind, caller |-> u, target |-> id, body |-> body, doc |-> doc,
   pc |-> pc, status |-> status]

NoDoc == [userId |-> "none"]

WithRequest(r, req) ==
  [x \in DOMAIN inflight \cup {r} |-> IF x = r THEN req ELSE inflight[x]]

RaceQuiet == ui' = NoUi /\ UNCHANGED <<now, scheduled, nextNid>>

\* POST /sessions up to `await session.save()`: the required-field check, the
\* patient lookup and the construction of the document.
PostLookup(r, u, body) ==
  /\ r \notin DOMAIN inflight
  /\ LET status == PostSessionStatus(u, body) IN
       IF status = 201
       THEN /\ inflight' = WithRequest(r, Request("post", u, 0, body, NewSession(u, body),
                                                  "await", 0))
            /\ UNCHANGED lastOp
       ELSE /\ inflight' = WithRequest(r, Request("post", u, 0, body, NoDoc, "done", status))
            /\ lastOp' = Op("post", u, nextSid, status)
  /\ UNCHANGED <<patients, sessions, nextPid, nextSid>>
  /\ RaceQuiet

\* POST /sessions from `await session.save()` to the 201 response.
PostSave(r) ==
  /\ Awaiting(r) /\ inflight[r].kind = "post"
  /\ sessions' = [x \in DOMAIN sessions \cup {nextSid} |->
                    IF x = nextSid THEN inflight[r].doc ELSE sessions[x]]
  /\ nextSid' = nextSid + 1
  /\ inflight' = [inflight EXCEPT ![r].pc = "done", ![r].status = 201,
                                  ![r].target = nextSid]
  /\ lastOp' = Op("post", inflight[r].caller, nextSid, 201)
  /\ UNCHANGED <<patients, nextPid>>
  /\ RaceQuiet

\* PUT /sessions/:id up to `await session.save()`: the lookup loads the
\* document and the "Update fields" block changes the loaded copy.
PutLookup(r, u, id, body) ==
  /\ r \notin DOMAIN inflight
  /\ LET found == FindOneSession(sessions, id, u) IN
       IF found = 0
       THEN /\ inflight' = WithRequest(r, Request("put", u, id, body, NoDoc, "done", 404))
            /\ lastOp' = Op("put", u, id, 404)
       ELSE /\ inflight' = WithRequest(r, Request("put", u, id, body, sessions[found],
                                                  "await", 0))
            /\ UNCHANGED lastOp
  /\ UNCHANGED <<patients, sessions, nextPid, nextSid>>
  /\ RaceQuiet

\* save() under another change tracking: every path the handler assigned is
\* written, changed or not.
SaveWritesAssigned(stored, loaded, body) ==
  LET assigned == ({"patientId", "patientName", "date", "time"} \cap
                     {f \in DOMAIN body : Truthy(body[f])})
                  \cup ({"notes", "completed", "amount"} \cap DOMAIN body)
  IN [f \in DOMAIN stored |->
        IF f \in assigned THEN ApplyUpdate(loaded, body)[f] ELSE stored[f]]

\* session.save() of a loaded document: Mongoose writes the paths whose value
\* the handler changed on the loaded copy ($set of the modified paths; an
\* assignment of the value the path already has marks nothing) and leaves the
\* other paths of the stored document as they are.
SaveWritesModified(stored, loaded, body) ==
  [f \in DOMAIN stored |->
     IF ApplyUpdate(loaded, body)[f] # loaded[f]
     THEN ApplyUpdate(loaded, body)[f] ELSE stored[f]]

\* PUT /sessions/:id from `await session.save()` to the response; save()
\* throws when the document is gone, and the catch block answers 500.
PutSave(r) ==
  /\ Awaiting(r) /\ inflight[r].kind = "put"
  /\ LET id == inflight[r].target IN
       IF id \in DOMAIN sessions
       THEN /\ sessions' = [sessions EXCEPT ![id] =
                              SaveWritesModified(sessions[id], inflight[r].doc,
                                                 inflight[r].body)]
            /\ inflight' = [inflight EXCEPT ![r].pc = "done", ![r].status = 200]
            /\ lastOp' = Op("put", inflight[r].caller, id, 200)
       ELSE /\ inflight' = [inflight EXCEPT ![r].pc = "done", ![r].status = 500]
            /\ lastOp' = Op("put", inflight[r].caller, id, 500)
            /\ UNCHANGED sessions
  /\ UNCHANGED <<patients, nextPid, nextSid>>
  /\ RaceQuiet

\* The next request number.
NextRequest == Cardinality(DOMAIN inflight) + 1

\* The PUT bodies of the concurrent requests: completed and notes.
RaceBodies ==
  {[completed |-> Bool(c), notes |-> Str(n)] : c \in BOOLEAN, n \in {<<>>, <<"x">>}}

\* One owner's requests, whose handlers interleave at their awaits.
NextRace ==
  \/ nextPid = 1 /\ PostPatient("u1")
  \/ \E id \in PatientIds : DeletePatient("u1", id)
  \/ /\ NextRequest <= MaxRequests /\ nextSid <= MaxApiSessions
     /\ PostLookup(NextRequest, "u1",
                   [patientId |-> Num(1), patientName |-> Str(<<"Asha">>),
                    date |-> Str(EpochCivil), time |-> Str(<<9, 30>>)])
  \/ \E r \in 1..MaxRequests : PostSave(r)
  \/ \E id \in 1..MaxApiSessions, body \in RaceBodies :
        NextRequest <= MaxRequests /\ PutLookup(NextRequest, "u1", id, body)
  \/ \E r \in 1..MaxRequests : PutSave(r)
  \/ \E id \in 1..MaxApiSessions : deleteSession("u1", id)

SpecRace == Init /\ [][NextRace]_vars

\* Evaluation instants: early, midday and late UTC on every day of the window.
Instants == {d * 1440 + m : d \in Days, m \in {120, 720, 1380}}

\* ------------------------------------------------------------------ claims
IdsOf(list) == {list[i].id.v : i \in 1..Len(list)}
ItemsOf(list) == {list[i] : i \in 1..Len(list)}
SessionWriteOps == {"edit", "reopen", "complete", "update", "deleteSession"}
NotFound == [status |-> 404, error |-> "Session not found"]

\* C1: every stored session that has an amount is completed.
C1_AmountImpliesCompleted ==
  \A s \in DOMAIN sessions : sessions[s].amount # Null => sessions[s].completed

\* C2: after a session is reopened it is stored with completed = false and no
\* amount, is listed by listUpcoming and is not listed by listPast.
C2_ReopenClearsAmount ==
  (lastOp.op = "reopen" /\ lastOp.status = 200) =>
    /\ sessions[lastOp.target].completed = FALSE
    /\ sessions[lastOp.target].amount = Null
    /\ lastOp.target \in IdsOf(getUpcomingSessions(sessions, lastOp.caller))
    /\ lastOp.target \notin IdsOf(getPastSessions(sessions, lastOp.caller))

\* The query strings of GET /sessions.
FilterQueries ==
  {JsonStringify([patientId |-> p, completed |-> c, startDate |-> sd, endDate |-> ed]) :
     p \in {Undefined} \cup {Num(i) : i \in PatientIds},
     c \in {Undefined, Str(<<"true">>), Str(<<"false">>)},
     sd \in {Undefined} \cup {Str(d) : d \in Dates},
     ed \in {Undefined} \cup {Str(d) : d \in Dates}}

\* Every session that any session-returning operation hands to owner u.
ReturnedTo(u) ==
  UNION ({ItemsOf(ListOf(GetSessionsRoute(sessions, u, q))) : q \in FilterQueries}
         \cup {ItemsOf(getUpcomingSessions(sessions, u)),
               ItemsOf(getPastSessions(sessions, u))}
         \cup {ItemsOf(getPatientSessions(patients, sessions, u, p)) : p \in PatientIds}
         \cup {IF GetByIdRoute(sessions, u, id).status = 200
               THEN {GetByIdRoute(sessions, u, id).session} ELSE {} : id \in SessionIds})

\* C3: the operations that return sessions return to owner u only sessions
\* whose owner is u, and an update or delete issued by u leaves every session
\* of another owner as it was.
C3_OwnerIsolation ==
  /\ [](\A u \in Users : \A x \in ReturnedTo(u) : x.userId = Str(<<u>>))
  /\ [][\A s \in DOMAIN sessions :
          (lastOp'.op \in SessionWriteOps /\ sessions[s].userId # lastOp'.caller)
            => (s \in DOMAIN sessions' /\ sessions'[s] = sessions[s])]_vars

C3_Witness ==
  /\ \E s, t \in DOMAIN sessions : sessions[s].userId # sessions[t].userId
  /\ \A u \in Users : ReturnedTo(u) # {}
  /\ lastOp.op \in {"update", "deleteSession"}
  /\ lastOp.target \in DOMAIN sessions
  /\ sessions[lastOp.target].userId # lastOp.caller

\* C4: getById, update and delete answer a session of another owner exactly
\* as they answer an id that is not stored (404, Session not found), and
\* leave the store unchanged.
C4_NotFoundIndistinguishable ==
  /\ [](\A u \in Users, id \in 1..(MaxSessions + 1) :
          (id \notin DOMAIN sessions \/ sessions[id].userId # u)
            => GetByIdRoute(sessions, u, id) = NotFound)
  /\ [][(/\ lastOp'.op \in SessionWriteOps
         /\ \/ lastOp'.target \notin DOMAIN sessions
            \/ sessions[lastOp'.target].userId # lastOp'.caller)
          => (lastOp'.status = 404 /\ sessions' = sessions /\ patients' = patients)]_vars

C4_Witness ==
  /\ lastOp.op \in {"update", "deleteSession"}
  /\ lastOp.status = 404
  /\ lastOp.target \in DOMAIN sessions
  /\ sessions[lastOp.target].userId # lastOp.caller
  /\ \E id \in SessionIds : id \notin DOMAIN sessions

\* C5: every stored session refers to a patient of the session's own owner.
C5_PatientOwnedBySessionOwner ==
  \A s \in DOMAIN sessions :
    /\ sessions[s].patientId \in DOMAIN patients
    /\ patients[sessions[s].patientId] = sessions[s].userId

\* C6: after a patient is deleted no stored session refers to it.
C6_DeletePatientCascades ==
  (lastOp.op = "deletePatient" /\ lastOp.status = 200) =>
    \A s \in DOMAIN sessions : sessions[s].patientId # lastOp.target

\* C7: for every owner, listUpcoming and listPast are disjoint, list no
\* session twice, and together list exactly the owner's sessions.
C7_UpcomingPastPartition ==
  \A u \in Users :
    LET up == getUpcomingSessions(sessions, u)
        past == getPastSessions(sessions, u)
    IN /\ IdsOf(up) \cap IdsOf(past) = {}
       /\ IdsOf(up) \cup IdsOf(past) = {s \in DOMAIN sessions : sessions[s].userId = u}
       /\ Cardinality(IdsOf(up)) = Len(up)
       /\ Cardinality(IdsOf(past)) = Len(past)

C7_Witness ==
  \E u \in Users :
    /\ Len(getUpcomingSessions(sessions, u)) = 1
    /\ Len(getPastSessions(sessions, u)) = 1

\* (date, time) of a returned session, as one fixed-width string.
DateTime(x) == x.date.v \o x.time.v

Ascending(list) ==
  \A i, j \in 1..Len(list) : i < j => StrCmp(DateTime(list[i]), DateTime(list[j])) <= 0

Descending(list) ==
  \A i, j \in 1..Len(list) : i < j => StrCmp(DateTime(list[i]), DateTime(list[j])) >= 0

\* C8: listPast is the owner's completed sessions in descending (date, time)
\* order, listUpcoming the incomplete ones in ascending order, and the
\* per-patient past and upcoming views have the same contents and orders.
C8_ListOrders ==
  \A u \in Users :
    LET done == {s \in DOMAIN sessions : sessions[s].userId = u /\ sessions[s].completed}
        open == {s \in DOMAIN sessions : sessions[s].userId = u /\ ~sessions[s].completed}
    IN /\ IdsOf(getPastSessions(sessions, u)) = done
       /\ Descending(getPastSessions(sessions, u))
       /\ IdsOf(getUpcomingSessions(sessions, u)) = open
       /\ Ascending(getUpcomingSessions(sessions, u))
       /\ \A p \in DOMAIN patients, off \in Offsets :
            patients[p] = u =>
              LET past == PatientScreenSessions(patients, sessions, u, p, TRUE, off)
                  up == PatientScreenSessions(patients, sessions, u, p, FALSE, off)
              IN /\ IdsOf(past) = {s \in done : sessions[s].patientId = p}
                 /\ Descending(past)
                 /\ IdsOf(up) = {s \in open : sessions[s].patientId = p}
                 /\ Ascending(up)

\* Two incomplete sessions stored latest first, across a month boundary, so
\* that both upcoming views have to reorder them, and a completed session.
C8_Witness ==
  \E v, w, s \in DOMAIN sessions :
    /\ v < w /\ ~sessions[v].completed /\ ~sessions[w].completed
    /\ StrCmp(sessions[v].date \o sessions[v].time, sessions[w].date \o sessions[w].time) > 0
    /\ sessions[v].date[3] < sessions[w].date[3]
    /\ sessions[s].completed

\* C9: at every instant and device offset, getTodaySessions returns exactly
\* the owner's sessions dated the local calendar date of that instant.
C9_TodayIsLocalDate ==
  \A u \in Users, t \in Instants, off \in Offsets :
    IdsOf(getTodaySessions(sessions, u, t)) =
      {s \in DOMAIN sessions :
         sessions[s].userId = u /\ sessions[s].date = formatDateForStorage(t, off)}

\* C10: the today view is sorted ascending by time.
C10_TodayAscendingByTime ==
  \A u \in Users, t \in Instants :
    LET today == getTodaySessions(sessions, u, t) IN
    \A i, j \in 1..Len(today) : i < j => StrCmp(today[i].time.v, today[j].time.v) <= 0

\* C11: a request to complete a session whose date is after the current date
\* is rejected and the session stays incomplete: a complete request never
\* succeeds on a session dated after the local date of every device offset.
C11_FutureCompleteRejected ==
  (lastOp.op = "complete" /\ lastOp.status = 200 /\ lastOp.target \in DOMAIN sessions) =>
    \E off \in Offsets :
      StrCmp(sessions[lastOp.target].date, formatDateForStorage(now, off)) <= 0

\* A session dated before the local date of every device offset.
PastDated(s) ==
  \A off \in Offsets : StrCmp(sessions[s].date, formatDateForStorage(now, off)) < 0

\* C12: completing an incomplete past-dated session with amount a stores
\* completed = true and amount = a, takes the session out of listUpcoming and
\* into listPast, and getById returns amount a; completing it without an
\* amount stores completed = true and no amount.
C12_CompleteStoresAmount ==
  [][\A u \in Users, s \in SessionIds :
       (FindOneSession(sessions, s, u) # 0 /\ ~sessions[s].completed /\ PastDated(s)) =>
         /\ \A a \in Amounts :
              HandlePaymentConfirm(u, s, a) =>
                /\ sessions'[s].completed
                /\ sessions'[s].amount = Num(a)
                /\ s \notin IdsOf(getUpcomingSessions(sessions', u))
                /\ s \in IdsOf(getPastSessions(sessions', u))
                /\ GetByIdRoute(sessions', u, s).status = 200
                /\ GetByIdRoute(sessions', u, s).session.amount = Num(a)
         /\ UpdateSessionCall(u, s, sessions[s].patientId, EpochCivil, <<9, 30>>,
                              TRUE, Undefined) =>
              /\ sessions'[s].completed
              /\ sessions'[s].amount = Null
    ]_vars

\* A step registers exactly one reminder, for session id at instant trigger.
RegistersOne(id, trigger) ==
  /\ scheduled \subseteq scheduled'
  /\ Cardinality(scheduled' \ scheduled) = 1
  /\ \A r \in scheduled' \ scheduled : r.sessionId = id /\ r.trigger = trigger

\* The form's call of scheduleSessionNotification returned null and left
\* expo-notifications as it was.
ReturnsNull == ui'.notify \in {"web", "past", "failed"} /\ scheduled' = scheduled

\* C13 (as stated): on every call, scheduleSessionNotification registers one
\* reminder at (session date and time) minus one hour if and only if that
\* instant is strictly later than now, and returns null and registers nothing
\* when it is not.
C13_RegistersIffLater ==
  [][nextSid' # nextSid =>
     \A d \in Days, tm \in Times, off \in Offsets, a \in AmountInputs,
        platform \in Platforms, fails \in BOOLEAN :
       (FormCreate("u1", 1, d, tm, off, a, platform, fails) /\ lastOp'.status = 201) =>
         LET id == lastOp'.target
             trigger == ParseLocalDateTime(sessions'[id].date, sessions'[id].time, off) - 60
         IN /\ (trigger > now) <=> RegistersOne(id, trigger)
            /\ (trigger <= now) => ReturnsNull
    ]_vars

\* C13 (amended): off the web platform and when scheduleNotificationAsync does
\* not throw, scheduleSessionNotification registers one reminder at (session
\* date and time) minus one hour if and only if that instant is strictly later
\* than now; on web, when the call throws, or when the instant is not later
\* than now, it returns null and registers nothing.
C13_RegistersIffLaterOffWeb ==
  [][nextSid' # nextSid =>
     \A d \in Days, tm \in Times, off \in Offsets, a \in AmountInputs,
        platform \in Platforms, fails \in BOOLEAN :
       (FormCreate("u1", 1, d, tm, off, a, platform, fails) /\ lastOp'.status = 201) =>
         LET id == lastOp'.target
             trigger == ParseLocalDateTime(sessions'[id].date, sessions'[id].time, off) - 60
         IN IF platform # "web" /\ ~fails
            THEN /\ (trigger > now) <=> RegistersOne(id, trigger)
                 /\ (trigger <= now) => ReturnsNull
            ELSE ReturnsNull
    ]_vars

\* A reminder was registered for the session just created, one hour before
\* its start on a device at UTC.
C13_Witness ==
  /\ lastOp.op = "create" /\ lastOp.status = 201
  /\ ui.notify = "registered"
  /\ \E r \in PendingFor(lastOp.target) :
        /\ r.trigger > now
        /\ r.trigger = ParseLocalDateTime(sessions[lastOp.target].date,
                                          sessions[lastOp.target].time, 0) - 60

\* C14: every stored session has at most one pending reminder.
C14_AtMostOnePending ==
  \A s \in DOMAIN sessions : Cardinality(PendingFor(s)) <= 1

\* C15: when deleteSession has returned success, no reminder for the deleted
\* session is pending.
C15_DeleteCancelsReminder ==
  (lastOp.op = "deleteSession" /\ lastOp.status = 200) => PendingFor(lastOp.target) = {}

\* C16: a form submit whose write succeeded and whose scheduling call then
\* threw ends with onSave, not with the alert, and the session stored as
\* submitted; a cancelNotification whose call threw shows no error and leaves
\* the stored sessions as they were.
C16_NotifyFailureSwallowed ==
  [][/\ (ui'.notify = "failed" /\ now' = now) =>
          \A d \in {-1} \cup Days, tm \in {<<>>} \cup Times, off \in Offsets, a \in Amounts :
            /\ (d # -1 /\ tm # <<>> /\ FormCreate("u1", 1, d, tm, off, Num(a), "ios", TRUE)) =>
                 /\ lastOp'.status = 201 /\ ui'.outcome = "saved"
                 /\ lastOp'.target \in DOMAIN sessions'
                 /\ sessions'[lastOp'.target].date = formatDateForStorage(PickedDate(d, off), off)
                 /\ sessions'[lastOp'.target].time = tm
            /\ \A s \in DOMAIN sessions :
                 FormEdit("u1", s, 1, d, tm, off, Num(a), "ios", TRUE) =>
                   /\ lastOp'.status = 200 /\ ui'.outcome = "saved"
                   /\ s \in DOMAIN sessions'
                   /\ d # -1 => sessions'[s].date = formatDateForStorage(PickedDate(d, off), off)
                   /\ tm # <<>> => sessions'[s].time = tm
     /\ (ui'.notify = "cancelFailed" /\ now' = now) =>
          /\ ui'.outcome = "none"
          /\ sessions' = sessions /\ lastOp' = lastOp /\ scheduled' = scheduled
    ]_vars

\* The scheduling call threw after a create answered 201, and the session is
\* stored and the form reported the save.
C16_Witness ==
  /\ ui.notify = "failed" /\ ui.outcome = "saved"
  /\ lastOp.op = "create" /\ lastOp.status = 201
  /\ lastOp.target \in DOMAIN sessions

\* A body that lacks a patient id, a date or a time, or carries it empty.
MissingRequired(body) ==
  \E k \in {"patientId", "date", "time"} : ~Truthy(Field(body, k))

C18_OwnerAndIdImmutable ==
  [][/\ (lastOp'.op = "post" /\ lastOp'.status = 201) =>
          /\ lastOp'.target \notin DOMAIN sessions
          /\ DOMAIN sessions' = DOMAIN sessions \cup {lastOp'.target}
          /\ sessions'[lastOp'.target].userId = lastOp'.caller
     /\ lastOp'.op = "put" =>
          /\ DOMAIN sessions' = DOMAIN sessions
          /\ \A s \in DOMAIN sessions : sessions'[s].userId = sessions[s].userId
    ]_vars

\* A PUT naming another owner and another id was answered 200 and the
\* session is still the caller's, created by a body that named another owner.
C18_Witness ==
  /\ lastOp.op = "put" /\ lastOp.status = 200
  /\ lastOp.target \in DOMAIN sessions
  /\ sessions[lastOp.target].userId = lastOp.caller
  /\ sessions[lastOp.target].patientName = <<"Bela">>

\* C19: updateSession with a patch that carries one field stores the
\* patch's value in that field (no amount when the patch's amount is
\* undefined) and leaves every other field of the stored session as it was.
C19_PartialFieldUpdate ==
  \A s \in DOMAIN sessions :
    LET V == [PatchValues(sessions[s].userId, s) EXCEPT !.amount = @ \cup {Undefined}]
        fields == DOMAIN V \ {"id", "userId"}
        before == transformSession(sessions, s)
    IN \A k \in fields : \A v \in V[k] :
         LET updatedSession == [j \in {k} |-> v]
             after == transformSession(
                        <<ApplyUpdate(sessions[s], JsonStringify(updatedSession))>>, 1)
         IN \A j \in fields :
              after[j] = IF j # k THEN before[j]
                         ELSE IF v = Undefined THEN Null ELSE v

\* The session a DELETE by caller u for id would remove, or 0.
OwnedBy(u, id) == IF id \in DOMAIN sessions /\ sessions[id].userId = u THEN id ELSE 0

\* C20: deleteSession by the owner is answered 200 and removes exactly that
\* session: getById for it is then not-found and every other session is
\* stored as before; deleteSession of an id that is absent (never stored, or
\* already deleted) or owned by someone else is answered not-found and
\* leaves the stored sessions as they were.
C20_DeleteExactlyOne ==
  [][lastOp'.op = "deleteSession" =>
       IF OwnedBy(lastOp'.caller, lastOp'.target) # 0
       THEN /\ lastOp'.status = 200
            /\ DOMAIN sessions' = DOMAIN sessions \ {lastOp'.target}
            /\ \A s \in DOMAIN sessions' : sessions'[s] = sessions[s]
            /\ GetByIdRoute(sessions', lastOp'.caller, lastOp'.target) = NotFound
       ELSE /\ lastOp'.status = 404
            /\ sessions' = sessions
    ]_vars

\* A second delete of a session its owner had deleted was answered
\* not-found, and the other stored session is still there.
C20_Witness ==
  /\ lastOp.op = "deleteSession" /\ lastOp.status = 404
  /\ lastOp.target < nextSid /\ lastOp.target \notin DOMAIN sessions
  /\ sessions # <<>>

\* The filter records a caller passes: each criterion present or absent.
SessionFilters ==
  {JsonStringify([patientId |-> p, completed |-> c, startDate |-> sd, endDate |-> ed]) :
     p \in {Undefined} \cup {Num(i) : i \in PatientIds},
     c \in {Undefined, Bool(TRUE), Bool(FALSE)},
     sd \in {Undefined} \cup {Str(d) : d \in Dates},
     ed \in {Undefined} \cup {Str(d) : d \in Dates}}

\* C21: listing with a filter returns exactly the caller's sessions that meet
\* every criterion the filter carries: patientId equal, completed equal,
\* startDate <= date and date <= endDate in string order.
C21_FilterExact ==
  \A u \in Users, f \in SessionFilters :
    IdsOf(getFilteredSessions(sessions, u, f)) =
      {s \in DOMAIN sessions :
         /\ sessions[s].userId = u
         /\ "patientId" \in DOMAIN f => sessions[s].patientId = f.patientId.v
         /\ "completed" \in DOMAIN f => sessions[s].completed = f.completed.v
         /\ "startDate" \in DOMAIN f => StrCmp(f.startDate.v, sessions[s].date) <= 0
         /\ "endDate" \in DOMAIN f => StrCmp(sessions[s].date, f.endDate.v) <= 0}

\* C22: getPatientSessions for a patient id that belongs to another owner or
\* was deleted ends in an error for the caller, not in a list.
C22_ByPatientNotFound ==
  \A u \in Users, p \in PatientIds :
    (p < nextPid /\ FindOnePatient(patients, p, u) = 0) =>
      ListOutcome(GetPatientSessionsRoute(patients, sessions, u, p)).outcome = "rejected"

\* C23: a storage date parsed the way the edit form parses it and formatted
\* again is the same string on a device at every offset, so saving the edit
\* form without touching the date leaves the stored date as it was.
C23_DateRoundTrip ==
  [][lastOp'.op = "edit" =>
       \A s \in DOMAIN sessions, tm \in {<<>>} \cup Times, off \in Offsets,
          a \in AmountInputs, platform \in Platforms, fails \in BOOLEAN :
         FormEdit("u1", s, 1, -1, tm, off, a, platform, fails) =>
           /\ formatDateForStorage(ParseDateOnly(sessions[s].date), off) = sessions[s].date
           /\ sessions'[s].date = sessions[s].date
    ]_vars

\* "YYYY-MM-DD" naming a calendar date, and "HH:MM" naming a time of day.
CanonicalDate(c) ==
  /\ Len(c) = 3 /\ c[1] \in 0..9999 /\ c[2] \in 1..12
  /\ c[3] \in 1..DaysInMonth(c[1], c[2])
CanonicalTime(tm) == Len(tm) = 2 /\ tm[1] \in 0..23 /\ tm[2] \in 0..59

\* C24: no create or update whose date is not YYYY-MM-DD or whose time is
\* not HH:MM is accepted: every stored session's date and time are canonical.
C24_MalformedRejected ==
  \A s \in DOMAIN sessions :
    CanonicalDate(sessions[s].date) /\ CanonicalTime(sessions[s].time)

\* C25: the patient check and the session write of a create are one atomic
\* step with respect to a deletion of the patient: whenever POST /sessions
\* stores a session and answers 201, the patient the session refers to exists.
C25_CreateAtomicWithDelete ==
  [][\A r \in DOMAIN inflight :
       (/\ inflight[r].kind = "post" /\ inflight[r].pc = "await"
        /\ inflight'[r].pc = "done" /\ inflight'[r].status = 201)
       => inflight[r].doc.patientId \in DOMAIN patients']_vars

\* The stored session after the handlers of PUT bodies a then b ran one after
\* the other on the stored document doc.
Serial(doc, a, b) == ApplyUpdate(ApplyUpdate(doc, a), b)

\* C26: two updates of the same session that both loaded the document before
\* either saved, and both succeed, leave the session as one of the two serial
\* orders of the two patches leaves it.
C26_LastWriteWins ==
  [][\A r, q \in DOMAIN inflight :
       (/\ r # q
        /\ inflight[r].kind = "put" /\ inflight[q].kind = "put"
        /\ inflight[r].pc = "await" /\ inflight'[r].pc = "done"
        /\ inflight'[r].status = 200
        /\ inflight[q].pc = "done" /\ inflight[q].status = 200
        /\ inflight[q].target = inflight[r].target
        /\ inflight[q].doc = inflight[r].doc
        /\ sessions[inflight[r].target] = ApplyUpdate(inflight[q].doc, inflight[q].body))
       => sessions'[inflight[r].target] \in
            {Serial(inflight[r].doc, inflight[q].body, inflight[r].body),
             Serial(inflight[r].doc, inflight[r].body, inflight[q].body)}]_vars

\* The failures every session route and the transport can produce whatever
\* the store holds: the 500 of a route's catch block, and a fetch that threw
\* (no response, status 0).
FailureStatuses == {0, 500}

\* C27: a repository error reaches the caller of the client function as an
\* error: a getById that was answered 404 or failed, a byPatient that was
\* answered 404, and a list call that failed all reject, and none resolves to
\* an absent session or an empty list.
C27_ErrorsReachCaller ==
  /\ \A u \in Users, id \in SessionIds :
        GetByIdRoute(sessions, u, id).status # 200 =>
          getSessionById(GetByIdRoute(sessions, u, id)).outcome = "rejected"
  /\ \A u \in Users, p \in PatientIds :
        GetPatientSessionsRoute(patients, sessions, u, p).status # 200 =>
          ListOutcome(GetPatientSessionsRoute(patients, sessions, u, p)).outcome = "rejected"
  /\ \A code \in FailureStatuses :
        /\ ListOutcome(Failure(code)).outcome = "rejected"
        /\ getSessionById(Failure(code)).outcome = "rejected"

\* C28: in every reachable state the amount of a stored session, when
\* present, is a number greater than zero.
C28_StoredAmountPositive ==
  \A s \in DOMAIN sessions :
    sessions[s].amount \notin {Null, Undefined} =>
      sessions[s].amount.k = "number" /\ sessions[s].amount.v > 0

\* C29: in the upcoming view a request to mark an incomplete session complete
\* is answered with the 'Cannot Complete' message and sends no update: the
\* stored sessions and the list the screen shows are as before.
C29_UpcomingCompleteRejected ==
  [][lastOp'.op = "toggleComplete" =>
       /\ ui'.outcome = "cannotComplete"
       /\ lastOp'.status = 0
       /\ sessions' = sessions
       /\ \A u \in Users :
            getUpcomingSessions(sessions', u) = getUpcomingSessions(sessions, u)]_vars

\* The alert is up for an incomplete session of the caller, next to another
\* session.
C29_Witness ==
  /\ lastOp.op = "toggleComplete"
  /\ ui.outcome = "cannotComplete"
  /\ lastOp.target \in DOMAIN sessions
  /\ ~sessions[lastOp.target].completed
  /\ Cardinality(DOMAIN sessions) = MaxSessions

\* C30: a submit of the session form registers a reminder only when its write
\* was answered with success; when the write fails no reminder is registered
\* and onSave is not called (the alert is shown); and after every submit the
\* form is out of its submitting state.
C30_ReminderAfterWrite ==
  [][(lastOp'.op \in {"create", "edit"} /\ now' = now) =>
       /\ lastOp'.status \notin {200, 201} =>
            /\ scheduled' = scheduled
            /\ ui'.outcome = "alert"
            /\ sessions' = sessions
       /\ scheduled' # scheduled =>
            /\ lastOp'.status \in {200, 201}
            /\ lastOp'.target \in DOMAIN sessions'
            /\ ui'.outcome = "saved"
       /\ ui'.submitting = FALSE]_vars

\* A submit whose write failed, while the clock is before every session (the
\* scheduling call, had it been reached, would have registered a reminder):
\* the alert is up, the form is not submitting and no reminder is pending.
C30_Witness ==
  /\ lastOp.op = "edit" /\ lastOp.status = 404
  /\ ui.outcome = "alert" /\ ~ui.submitting
  /\ now = 0
  /\ scheduled = {}
====
